---- MODULE Spec2Model ----
(***************************************************************************)
(* A model of the "products" and "cart" modules of CC_Monolith.            *)
(*                                                                         *)
(* Python values are tagged records [t, v, s]: t is the type, v an integer *)
(* payload and s a string payload.  A string is a sequence of characters,  *)
(* so that str.strip(), int(str) and float(str) are computed, not assumed. *)
(* A float is held in halves (v = 5 is 2.5), which is enough to tell       *)
(* float(x) and int(x) from the identity; "nan" is the float NaN.          *)
(***************************************************************************)
EXTENDS Integers, Sequences, FiniteSets, TLC

VARIABLES products, carts, call, ret, noted

vars == <<products, carts, call, ret, noted>>

(***************************************************************************)
(* Python values and exceptions.                                           *)
(***************************************************************************)
PyInt(n) == [t |-> "int", v |-> n, s |-> <<>>]

PyBool(b) == [t |-> "bool", v |-> IF b THEN 1 ELSE 0, s |-> <<>>]

PyFloat(h) == [t |-> "float", v |-> h, s |-> <<>>]

PyNaN == [t |-> "nan", v |-> 0, s |-> <<>>]

PyStr(cs) == [t |-> "str", v |-> 0, s |-> cs]

PyNone == [t |-> "none", v |-> 0, s |-> <<>>]

\* A JSON array nested inside a contents array: a Python list, unhashable.
PyList == [t |-> "list", v |-> 0, s |-> <<>>]

\* The value of a key that a mapping does not hold.
Missing == [t |-> "missing", v |-> 0, s |-> <<>>]

KeyError == [t |-> "KeyError", v |-> 0, s |-> <<>>]

ValueError == [t |-> "ValueError", v |-> 0, s |-> <<>>]

TypeError == [t |-> "TypeError", v |-> 0, s |-> <<>>]

IsExc(x) == x.t \in {"KeyError", "ValueError", "TypeError"}

\* isinstance(x, int): bool is a subclass of int.
IsInstanceInt(x) == x.t \in {"int", "bool"}

\* isinstance(x, (int, float))
IsInstanceNumber(x) == x.t \in {"int", "bool", "float", "nan"}

IsInstanceStr(x) == x.t = "str"

\* The numeric value of an int, bool or float, in halves.
Halves(x) == IF x.t = "float" THEN x.v ELSE 2 * x.v

\* x >= 0 and x > 0 on numbers: every comparison with NaN is false.
GeZero(x) == x.t # "nan" /\ Halves(x) >= 0

GtZero(x) == x.t # "nan" /\ Halves(x) > 0

\* Python's ==: numbers compare by value across int, bool and float, NaN
\* equals nothing, a string equals only an equal string.
PyEq(a, b) ==
    IF a.t \in {"int", "bool", "float"} /\ b.t \in {"int", "bool", "float"}
    THEN Halves(a) = Halves(b)
    ELSE IF a.t = "str" /\ b.t = "str" THEN a.s = b.s
    ELSE a.t = "none" /\ b.t = "none"

(***************************************************************************)
(* Strings.                                                                *)
(***************************************************************************)
Whitespace == {" ", "\t", "\n"}

Digits == <<"0", "1", "2", "3", "4", "5", "6", "7", "8", "9">>

IsDigit(c) == \E i \in 1..10 : Digits[i] = c

DigitVal(c) == (CHOOSE i \in 1..10 : Digits[i] = c) - 1

RECURSIVE LStrip(_)
LStrip(cs) ==
    IF cs # <<>> /\ Head(cs) \in Whitespace THEN LStrip(Tail(cs)) ELSE cs

RECURSIVE RStrip(_)
RStrip(cs) ==
    IF cs # <<>> /\ cs[Len(cs)] \in Whitespace
    THEN RStrip(SubSeq(cs, 1, Len(cs) - 1))
    ELSE cs

\* str.strip()
Strip(cs) == RStrip(LStrip(cs))

AllDigits(cs) == cs # <<>> /\ \A i \in 1..Len(cs) : IsDigit(cs[i])

RECURSIVE DigitsVal(_)
DigitsVal(cs) ==
    IF cs = <<>> THEN 0
    ELSE 10 * DigitsVal(SubSeq(cs, 1, Len(cs) - 1)) + DigitVal(cs[Len(cs)])

RECURSIVE NatRepr(_)
NatRepr(n) ==
    IF n < 10 THEN <<Digits[n + 1]>>
    ELSE NatRepr(n \div 10) \o <<Digits[(n % 10) + 1]>>

\* repr of an int
IntRepr(n) == IF n < 0 THEN <<"-">> \o NatRepr(-n) ELSE NatRepr(n)

\* repr of a float held in halves: 5 is "2.5", -1 is "-0.5", 4 is "2.0"
FloatRepr(h) ==
    LET a == IF h < 0 THEN -h ELSE h
    IN  (IF h < 0 THEN <<"-">> ELSE <<>>)
        \o NatRepr(a \div 2) \o <<".">>
        \o (IF a % 2 = 1 THEN <<"5">> ELSE <<"0">>)

\* The sign and the unsigned rest of a stripped numeric literal.
Unsigned(cs) ==
    IF cs # <<>> /\ Head(cs) \in {"+", "-"} THEN Tail(cs) ELSE cs

Negative(cs) == cs # <<>> /\ Head(cs) = "-"

\* int(str): surrounding whitespace and one sign are accepted, then digits.
ParseInt(cs) ==
    LET body == Unsigned(Strip(cs))
    IN  IF AllDigits(body)
        THEN PyInt(IF Negative(Strip(cs)) THEN -DigitsVal(body)
                   ELSE DigitsVal(body))
        ELSE ValueError

\* The index of the first "." of cs, or 0.
DotAt(cs) ==
    IF \E i \in 1..Len(cs) : cs[i] = "."
    THEN CHOOSE i \in 1..Len(cs) :
             cs[i] = "." /\ \A j \in 1..(i - 1) : cs[j] # "."
    ELSE 0

\* float(str), for literals whose fraction is absent, "0" or "5" (the
\* floats this model holds): whitespace, one sign, digits, "." and a
\* fraction, or "nan".
ParseFloat(cs) ==
    LET st == Strip(cs)
        body == Unsigned(st)
        dot == DotAt(body)
        whole == IF dot = 0 THEN body ELSE SubSeq(body, 1, dot - 1)
        frac == IF dot = 0 THEN <<>> ELSE SubSeq(body, dot + 1, Len(body))
        mag == 2 * DigitsVal(whole) + (IF frac = <<"5">> THEN 1 ELSE 0)
    IN  IF body = <<"n", "a", "n">> THEN PyNaN
        ELSE IF /\ AllDigits(whole) \/ (whole = <<>> /\ frac # <<>>)
                /\ frac \in {<<>>, <<"0">>, <<"5">>}
        THEN PyFloat(IF Negative(st) THEN -mag ELSE mag)
        ELSE ValueError

(***************************************************************************)
(* The conversions Product.from_dict applies.                              *)
(***************************************************************************)
\* Truncation toward zero of a float held in halves.
Trunc(h) == IF h >= 0 THEN h \div 2 ELSE -((-h) \div 2)

\* int(x)
ToInt(x) ==
    CASE x.t = "int" -> x
      [] x.t = "bool" -> PyInt(x.v)
      [] x.t = "float" -> PyInt(Trunc(x.v))
      [] x.t = "nan" -> ValueError
      [] x.t = "str" -> ParseInt(x.s)
      [] OTHER -> TypeError

\* ToFloat as it would be had from_dict read the cost with int().
ToFloatTruncated(x) ==
    IF IsExc(ToInt(x)) THEN ToInt(x) ELSE PyFloat(2 * ToInt(x).v)

\* float(x)
ToFloat(x) ==
    CASE x.t \in {"int", "bool"} -> PyFloat(2 * x.v)
      [] x.t \in {"float", "nan"} -> x
      [] x.t = "str" -> ParseFloat(x.s)
      [] OTHER -> TypeError

\* str(x)
ToStr(x) ==
    CASE x.t = "str" -> x
      [] x.t = "int" -> PyStr(IntRepr(x.v))
      [] x.t = "bool" ->
            PyStr(IF x.v = 1 THEN <<"T", "r", "u", "e">>
                  ELSE <<"F", "a", "l", "s", "e">>)
      [] x.t = "float" -> PyStr(FloatRepr(x.v))
      [] x.t = "nan" -> PyStr(<<"n", "a", "n">>)
      [] x.t = "none" -> PyStr(<<"N", "o", "n", "e">>)
      [] OTHER -> PyStr(<<"[", "]">>)

(***************************************************************************)
(* Product.  A mapping with the five product keys is a record whose absent *)
(* keys hold Missing; the mapping with no key at all also stands for None, *)
(* which every caller treats as it treats {}.                              *)
(***************************************************************************)
Row(id, name, description, cost, qty) ==
    [id |-> id, name |-> name, description |-> description,
     cost |-> cost, qty |-> qty]

EmptyRow == Row(Missing, Missing, Missing, Missing, Missing)

\* bool(mapping): a mapping is true when it holds a key.
Truthy(data) == data # EmptyRow

\* data[key]
GetItem(x) == IF x = Missing THEN KeyError ELSE x

\* Product.from_dict: [raised, product]; raised is the ValueError.
from_dict(data) ==
    LET p == Row(IF IsExc(GetItem(data.id)) THEN KeyError
                 ELSE ToInt(data.id),
                 IF IsExc(GetItem(data.name)) THEN KeyError
                 ELSE ToStr(data.name),
                 IF IsExc(GetItem(data.description)) THEN KeyError
                 ELSE ToStr(data.description),
                 IF IsExc(GetItem(data.cost)) THEN KeyError
                 ELSE ToFloat(data.cost),
                 IF data.qty = Missing THEN ToInt(PyInt(0))
                 ELSE ToInt(data.qty))
        bad == \/ IsExc(p.id) \/ IsExc(p.name) \/ IsExc(p.description)
               \/ IsExc(p.cost) \/ IsExc(p.qty)
    IN  [raised |-> bad, product |-> IF bad THEN EmptyRow ELSE p]

\* Product.to_dict
to_dict(p) ==
    [id |-> p.id, name |-> p.name, description |-> p.description,
     cost |-> p.cost, qty |-> p.qty]

\* validate as it would be without the strip() of the name.
validate_unstripped(p) ==
    /\ IsInstanceInt(p.id) /\ GtZero(p.id)
    /\ IsInstanceStr(p.name) /\ Len(p.name.s) > 0
    /\ IsInstanceStr(p.description)
    /\ IsInstanceNumber(p.cost) /\ GeZero(p.cost)
    /\ IsInstanceInt(p.qty) /\ GeZero(p.qty)

\* Product.validate
validate(p) ==
    /\ IsInstanceInt(p.id) /\ GtZero(p.id)
    /\ IsInstanceStr(p.name) /\ Len(Strip(p.name.s)) > 0
    /\ IsInstanceStr(p.description)
    /\ IsInstanceNumber(p.cost) /\ GeZero(p.cost)
    /\ IsInstanceInt(p.qty) /\ GeZero(p.qty)

(***************************************************************************)
(* The products DAO: a table of rows, one per product id.  A call named in *)
(* the fault plan of a public call raises and writes nothing.              *)
(***************************************************************************)
dao_list_products(table) == table

HasRow(table, id) == \E i \in 1..Len(table) : PyEq(table[i].id, id)

dao_get_product(table, id) ==
    IF HasRow(table, id)
    THEN table[CHOOSE i \in 1..Len(table) :
                   /\ PyEq(table[i].id, id)
                   /\ \A j \in 1..(i - 1) : ~PyEq(table[j].id, id)]
    ELSE EmptyRow

\* Raises when the id is taken: the id is the table's key.
dao_add_product_raises(table, d) == HasRow(table, d.id)

dao_add_product(table, d) == Append(table, d)

dao_update_qty(table, id, qty) ==
    [i \in 1..Len(table) |->
        IF PyEq(table[i].id, id) THEN [table[i] EXCEPT !.qty = qty]
        ELSE table[i]]

(***************************************************************************)
(* The public operations of products.  An optional Product is a sequence   *)
(* of at most one Product.                                                 *)
(***************************************************************************)
RECURSIVE ParseAll(_)
ParseAll(rows) ==
    IF rows = <<>> THEN <<>>
    ELSE <<from_dict(Head(rows))>> \o ParseAll(Tail(rows))

\* list_products as it would be with the try inside the loop: a row that
\* does not parse is left out.
list_products_partial(table, fault) ==
    LET parsed == ParseAll(SelectSeq(dao_list_products(table), Truthy))
        good == SelectSeq(parsed, LAMBDA r : ~r.raised)
    IN  IF fault THEN <<>> ELSE [i \in 1..Len(good) |-> good[i].product]

list_products(table, fault) ==
    LET parsed == ParseAll(SelectSeq(dao_list_products(table), Truthy))
    IN  IF fault \/ \E i \in 1..Len(parsed) : parsed[i].raised THEN <<>>
        ELSE [i \in 1..Len(parsed) |-> parsed[i].product]

get_product(table, product_id, fault) ==
    LET product_data == dao_get_product(table, product_id)
    IN  IF fault \/ ~Truthy(product_data) \/ from_dict(product_data).raised
        THEN <<>>
        ELSE <<from_dict(product_data).product>>

\* [ok, table, dao]: the value returned, the table left behind and the DAO
\* calls made.
Outcome(ok, table, dao) == [ok |-> ok, table |-> table, dao |-> dao]

\* add_product as it would be without the call of validate().
add_product_unvalidated(table, product, fault) ==
    LET made == from_dict(product)
        d == to_dict(made.product)
    IN  IF made.raised THEN Outcome(FALSE, table, <<>>)
        ELSE IF fault \/ dao_add_product_raises(table, d)
        THEN Outcome(FALSE, table, <<"add_product">>)
        ELSE Outcome(TRUE, dao_add_product(table, d), <<"add_product">>)

add_product(table, product, fault) ==
    LET made == from_dict(product)
        d == to_dict(made.product)
    IN  IF made.raised \/ ~validate(made.product)
        THEN Outcome(FALSE, table, <<>>)
        ELSE IF fault \/ dao_add_product_raises(table, d)
        THEN Outcome(FALSE, table, <<"add_product">>)
        ELSE Outcome(TRUE, dao_add_product(table, d), <<"add_product">>)

\* update_qty as it would be without the existence check.
update_qty_unchecked(table, product_id, qty, readFault, writeFault) ==
    IF ~IsInstanceInt(qty) \/ ~GeZero(qty)
    THEN Outcome(FALSE, table, <<>>)
    ELSE IF writeFault THEN Outcome(FALSE, table, <<"update_qty">>)
    ELSE Outcome(TRUE, dao_update_qty(table, product_id, qty),
                 <<"update_qty">>)

\* update_qty as it would be if it returned True without the DAO write.
update_qty_lost(table, product_id, qty, readFault, writeFault) ==
    IF ~IsInstanceInt(qty) \/ ~GeZero(qty)
    THEN Outcome(FALSE, table, <<>>)
    ELSE IF get_product(table, product_id, readFault) = <<>>
    THEN Outcome(FALSE, table, <<"get_product">>)
    ELSE Outcome(TRUE, table, <<"get_product">>)

update_qty(table, product_id, qty, readFault, writeFault) ==
    IF ~IsInstanceInt(qty) \/ ~GeZero(qty)
    THEN Outcome(FALSE, table, <<>>)
    ELSE IF get_product(table, product_id, readFault) = <<>>
    THEN Outcome(FALSE, table, <<"get_product">>)
    ELSE IF writeFault
    THEN Outcome(FALSE, table, <<"get_product", "update_qty">>)
    ELSE Outcome(TRUE, dao_update_qty(table, product_id, qty),
                 <<"get_product", "update_qty">>)

\* updates is the mapping's items in iteration order, each [id, qty];
\* faults holds <<"read", id>> and <<"write", id>> for the DAO calls that
\* raise.  [results, table].
\* batch_update_qty as it would be if the loop stopped at the first entry
\* that fails: the entries after it are reported false and not applied.
RECURSIVE batch_update_qty_abort(_, _, _)
batch_update_qty_abort(table, updates, faults) ==
    IF updates = <<>> THEN [results |-> <<>>, table |-> table]
    ELSE LET e == updates[Len(updates)]
             before == batch_update_qty_abort(
                           table, SubSeq(updates, 1, Len(updates) - 1), faults)
             failed == \E k \in DOMAIN before.results : ~before.results[k]
             r == update_qty(before.table, PyInt(e.id), e.qty,
                             <<"read", e.id>> \in faults,
                             <<"write", e.id>> \in faults)
         IN  IF failed
             THEN [results |-> (e.id :> FALSE) @@ before.results,
                   table |-> before.table]
             ELSE [results |-> (e.id :> r.ok) @@ before.results,
                   table |-> r.table]

RECURSIVE batch_update_qty(_, _, _)
batch_update_qty(table, updates, faults) ==
    IF updates = <<>> THEN [results |-> <<>>, table |-> table]
    ELSE LET e == updates[Len(updates)]
             before == batch_update_qty(
                           table, SubSeq(updates, 1, Len(updates) - 1), faults)
             r == update_qty(before.table, PyInt(e.id), e.qty,
                             <<"read", e.id>> \in faults,
                             <<"write", e.id>> \in faults)
         IN  [results |-> (e.id :> r.ok) @@ before.results,
              table |-> r.table]

(***************************************************************************)
(* Bounds and the inputs the calls draw from.                              *)
(***************************************************************************)
\* Most DAO calls that raise within one public call.
MaxFaults == 1

\* Most entries of the mapping given to batch_update_qty.
MaxBatch == 2

\* Most rows of the cart table.
MaxCartRows == 2

FaultPlans(tags) == {F \in SUBSET tags : Cardinality(F) <= MaxFaults}

sPen == <<"p", "e", "n">>

Base == Row(PyInt(1), PyStr(sPen), PyStr(<<"d">>), PyFloat(5), PyInt(3))

Second == Row(PyInt(2), PyStr(<<"i", "n", "k">>), PyStr(<<>>), PyFloat(0),
              PyInt(0))

\* A stored row that does not parse: its cost is null.
NullCost == [Second EXCEPT !.cost = PyNone]

IdInputs ==
    {PyInt(-1), PyInt(0), PyInt(2), PyStr(<<" ", "2">>), PyStr(sPen),
     PyFloat(3), PyBool(TRUE), PyNone, Missing}

NameInputs ==
    {PyStr(<<" ", "a", " ">>), PyStr(<<" ", "\t">>), PyStr(<<>>), PyNone,
     Missing}

DescriptionInputs == {PyInt(7), PyNone, Missing}

CostInputs ==
    {PyFloat(0), PyFloat(-1), PyInt(3), PyInt(-1),
     PyStr(<<"2", ".", "5">>), PyStr(sPen), PyNaN, PyStr(<<"n", "a", "n">>),
     PyNone, Missing}

QtyInputs ==
    {PyInt(0), PyInt(-1), PyStr(<<" ", "2", " ">>), PyStr(<<"-", "1">>),
     PyFloat(5), PyBool(TRUE), PyNone, Missing}

\* The mappings given to from_dict and add_product: Base, each mapping that
\* differs from Base in one field, some that differ in two, {} and None.
FieldSets ==
    {Base, EmptyRow}
    \cup {[Base EXCEPT !.id = x] : x \in IdInputs}
    \cup {[Base EXCEPT !.name = x] : x \in NameInputs}
    \cup {[Base EXCEPT !.description = x] : x \in DescriptionInputs}
    \cup {[Base EXCEPT !.cost = x] : x \in CostInputs}
    \cup {[Base EXCEPT !.qty = x] : x \in QtyInputs}
    \cup {[Base EXCEPT !.id = PyInt(0), !.qty = PyInt(-1)],
          [Base EXCEPT !.name = PyStr(<<>>), !.cost = PyFloat(-1)]}

\* The ids the calls look up: 3 is the id of no product.
LookupIds == {1, 2, 3}

\* The qty arguments of update_qty.
QtyArgs ==
    {PyInt(0), PyInt(4), PyInt(-1), PyBool(TRUE), PyFloat(4),
     PyStr(<<"4">>), PyNone}

\* The items the mappings given to batch_update_qty are made of.
BatchItems ==
    {[id |-> 1, qty |-> PyInt(4)], [id |-> 2, qty |-> PyInt(4)],
     [id |-> 2, qty |-> PyInt(-1)], [id |-> 3, qty |-> PyInt(4)]}

DistinctIds(updates) ==
    \A i, j \in 1..Len(updates) : i # j => updates[i].id # updates[j].id

\* The items of the mappings given to batch_update_qty: a mapping holds a
\* key once.
BatchArgs ==
    {u \in UNION {[1..n -> BatchItems] : n \in 0..MaxBatch} :
        DistinctIds(u)}

BatchTags(updates) ==
    UNION {{<<"read", updates[i].id>>, <<"write", updates[i].id>>} :
              i \in 1..Len(updates)}

\* The product tables the catalog starts from: absent and unparsable rows
\* come from other writers of the store.
InitTables ==
    {<<>>, <<Base>>, <<Base, Second>>, <<Second, EmptyRow, Base>>,
     <<Base, NullCost>>}

(***************************************************************************)
(* The calls of products.  call is the public call that has just returned *)
(* and ret what it returned: [kind, val], kind "exc" when the call raised. *)
(***************************************************************************)
NoCall == [op |-> "none"]

NoRet == [kind |-> "none"]

Idle == call = NoCall

\* What the caller has noted of the call it made last: nothing, or the
\* write that has just succeeded.
NoNote == [op |-> "none"]

\* Product.validate on the Product that from_dict makes of a mapping.
Validate ==
    \E data \in FieldSets :
        /\ Idle
        /\ ~from_dict(data).raised
        /\ call' = [op |-> "validate", product |-> from_dict(data).product]
        /\ ret' = [kind |-> "bool", val |-> validate(from_dict(data).product)]
        /\ noted' = NoNote
        /\ UNCHANGED <<products, carts>>

\* Product.from_dict(data).to_dict(); from_dict raises ValueError.
FromDictToDict ==
    \E data \in FieldSets :
        /\ Idle
        /\ call' = [op |-> "from_dict", data |-> data]
        /\ ret' = IF from_dict(data).raised
                  THEN [kind |-> "exc", val |-> EmptyRow]
                  ELSE [kind |-> "dict",
                        val |-> to_dict(from_dict(data).product)]
        /\ noted' = NoNote
        /\ UNCHANGED <<products, carts>>

ListProducts ==
    \E F \in FaultPlans({<<"list", 0>>}) :
        /\ Idle
        /\ call' = [op |-> "list_products", faults |-> F]
        /\ ret' = [kind |-> "seq",
                   val |-> list_products(products, <<"list", 0>> \in F)]
        /\ noted' = NoNote
        /\ UNCHANGED <<products, carts>>

GetProduct ==
    \E id \in LookupIds :
        \E F \in FaultPlans({<<"read", id>>}) :
            /\ Idle
            /\ call' = [op |-> "get_product", id |-> id, faults |-> F,
                        after |-> noted]
            /\ ret' = [kind |-> "opt",
                       val |-> get_product(products, PyInt(id),
                                           <<"read", id>> \in F)]
            /\ noted' = NoNote
            /\ UNCHANGED <<products, carts>>

AddProduct ==
    \E product \in FieldSets :
        \E F \in FaultPlans({<<"add", 0>>}) :
            LET r == add_product(products, product, <<"add", 0>> \in F)
            IN  /\ Idle
                /\ call' = [op |-> "add_product", product |-> product,
                            faults |-> F]
                /\ ret' = [kind |-> "bool", val |-> r.ok, dao |-> r.dao]
                /\ products' = r.table
                /\ noted' = NoNote
                /\ UNCHANGED carts

UpdateQty ==
    \E id \in LookupIds, qty \in QtyArgs :
        \E F \in FaultPlans({<<"read", id>>, <<"write", id>>}) :
            LET r == update_qty(products, PyInt(id), qty,
                                <<"read", id>> \in F, <<"write", id>> \in F)
            IN  /\ Idle
                /\ call' = [op |-> "update_qty", id |-> id, qty |-> qty,
                            faults |-> F]
                /\ ret' = [kind |-> "bool", val |-> r.ok, dao |-> r.dao]
                /\ products' = r.table
                /\ noted' = NoNote
                /\ UNCHANGED carts

BatchUpdateQty ==
    \E updates \in BatchArgs :
        \E F \in FaultPlans(BatchTags(updates)) :
            LET r == batch_update_qty(products, updates, F)
            IN  /\ Idle
                /\ call' = [op |-> "batch_update_qty", updates |-> updates,
                            faults |-> F]
                /\ ret' = [kind |-> "map", val |-> r.results]
                /\ products' = r.table
                /\ noted' = NoNote
                /\ UNCHANGED carts

\* The caller takes the result; it makes its calls one at a time.
TakeResult ==
    /\ ~Idle
    /\ call' = NoCall
    /\ ret' = NoRet
    /\ noted' = NoNote
    /\ UNCHANGED <<products, carts>>

\* The caller takes the result of a write that succeeded and notes it.
TakeResultNoting ==
    /\ call.op \in {"update_qty", "add_to_cart", "remove_from_cart",
                    "delete_cart"}
    /\ ret.val
    /\ call' = NoCall
    /\ ret' = NoRet
    /\ noted' = IF call.op = "update_qty"
                THEN [op |-> call.op, id |-> call.id, qty |-> call.qty]
                ELSE [op |-> call.op, username |-> call.username]
    /\ UNCHANGED <<products, carts>>

InitCatalog ==
    /\ products \in InitTables
    /\ carts = <<>>
    /\ call = NoCall
    /\ ret = NoRet
    /\ noted = NoNote

NextCatalog ==
    \/ Validate
    \/ FromDictToDict
    \/ ListProducts
    \/ GetProduct
    \/ AddProduct
    \/ UpdateQty
    \/ BatchUpdateQty
    \/ TakeResult

SpecCatalog == InitCatalog /\ [][NextCatalog]_vars

(***************************************************************************)
(* The cart table.  A row is [username, contents]; contents is the stored  *)
(* text by what json.loads makes of it: k is "missing" (the row has no     *)
(* contents key), "null" (the field is None), "badjson" (not JSON),        *)
(* "number" (a JSON number), "string" (a JSON string of the characters     *)
(* items) or "array" (a JSON array of items, each an int or a nested       *)
(* array, PyList).                                                         *)
(***************************************************************************)
Contents(k, items) == [k |-> k, items |-> items]

CartRow(username, contents) == [username |-> username, contents |-> contents]

Ints(ns) == [i \in 1..Len(ns) |-> PyInt(ns[i])]

\* json.loads(detail['contents']) raises KeyError, TypeError or
\* JSONDecodeError.
json_loads_raises(contents) == contents.k \in {"missing", "null", "badjson"}

\* The index of the first unhashable item, or Len + 1.
FirstUnhashable(items) ==
    IF \E i \in 1..Len(items) : items[i] = PyList
    THEN CHOOSE i \in 1..Len(items) :
             items[i] = PyList /\ \A j \in 1..(i - 1) : items[j] # PyList
    ELSE Len(items) + 1

\* set.update(value): the set after the call, whether it returned or raised
\* TypeError.  A number is not iterable; a string gives its characters; an
\* array gives its items up to the first unhashable one, where it raises.
set_update(ids, contents) ==
    CASE contents.k = "array" ->
            ids \cup {contents.items[i] :
                         i \in 1..(FirstUnhashable(contents.items) - 1)}
      [] contents.k = "string" ->
            ids \cup {PyStr(<<contents.items[i]>>) :
                         i \in 1..Len(contents.items)}
      [] OTHER -> ids

\* The loop of get_cart over cart_details.
RECURSIVE collect_ids(_)
collect_ids(cart_details) ==
    IF cart_details = <<>> THEN {}
    ELSE LET detail == cart_details[Len(cart_details)]
             ids == collect_ids(SubSeq(cart_details, 1, Len(cart_details) - 1))
         IN  IF json_loads_raises(detail.contents) THEN ids
             ELSE set_update(ids, detail.contents)

\* The cart DAO.
dao_get_cart(table, username) ==
    SelectSeq(table, LAMBDA r : r.username = username)

dao_add_to_cart(table, username, product_id) ==
    Append(table, CartRow(username, Contents("array", <<PyInt(product_id)>>)))

dao_remove_from_cart(table, username, product_id) ==
    [i \in 1..Len(table) |->
        IF table[i].username = username /\ table[i].contents.k = "array"
        THEN CartRow(username,
                 Contents("array",
                     SelectSeq(table[i].contents.items,
                               LAMBDA x : ~PyEq(x, PyInt(product_id)))))
        ELSE table[i]]

dao_delete_cart(table, username) ==
    SelectSeq(table, LAMBDA r : r.username # username)

\* The second loop of get_cart, over the set in the order it iterates.
RECURSIVE resolve(_, _, _)
resolve(table, order, faults) ==
    IF order = <<>> THEN <<>>
    ELSE resolve(table, SubSeq(order, 1, Len(order) - 1), faults)
         \o get_product(table, order[Len(order)],
                        <<"read", order[Len(order)].v>> \in faults)

\* get_cart: order is the order in which the set of ids iterates; faults
\* holds <<"cart", 0>> when dao.get_cart raises and <<"read", id>> when
\* dao.get_product(id) raises.  dao.get_cart is called outside any try.
get_cart(table, cartTable, username, order, faults) ==
    LET cart_details == dao_get_cart(cartTable, username)
    IN  IF <<"cart", 0>> \in faults THEN [kind |-> "exc", val |-> <<>>]
        ELSE IF cart_details = <<>> THEN [kind |-> "seq", val |-> <<>>]
        ELSE [kind |-> "seq", val |-> resolve(table, order, faults)]

\* [ok, table, dao] of the three writes.
add_to_cart(table, username, product_id, fault) ==
    IF fault THEN Outcome(FALSE, table, <<"add_to_cart">>)
    ELSE Outcome(TRUE, dao_add_to_cart(table, username, product_id),
                 <<"add_to_cart">>)

remove_from_cart(table, username, product_id, fault) ==
    IF fault THEN Outcome(FALSE, table, <<"remove_from_cart">>)
    ELSE Outcome(TRUE, dao_remove_from_cart(table, username, product_id),
                 <<"remove_from_cart">>)

delete_cart(table, username, fault) ==
    IF fault THEN Outcome(FALSE, table, <<"delete_cart">>)
    ELSE Outcome(TRUE, dao_delete_cart(table, username), <<"delete_cart">>)

(***************************************************************************)
(* The calls of cart.                                                      *)
(***************************************************************************)
Users == {"alice", "bob"}

\* The product ids given to add_to_cart and remove_from_cart.
CartIds == {1, 3}

\* The orders in which a set may iterate.
Orders(S) ==
    {o \in [1..Cardinality(S) -> S] :
        \A i, j \in 1..Cardinality(S) : i # j => o[i] # o[j]}

\* The ids get_cart looks up for a user.
IdsOf(cartTable, username) == collect_ids(dao_get_cart(cartTable, username))

CartTags(ids) ==
    {<<"cart", 0>>} \cup {<<"read", x.v>> : x \in {y \in ids : y.t = "int"}}

\* The cart tables the cart starts from.
InitCartTables ==
    {<<>>,
     <<CartRow("alice", Contents("array", Ints(<<1, 2>>))),
       CartRow("alice", Contents("array", Ints(<<2, 3>>)))>>,
     <<CartRow("alice", Contents("array", <<PyInt(1), PyList, PyInt(2)>>)),
       CartRow("bob", Contents("array", Ints(<<2>>)))>>,
     <<CartRow("alice", Contents("missing", <<>>)),
       CartRow("alice", Contents("array", Ints(<<2, 2>>)))>>,
     <<CartRow("alice", Contents("array", Ints(<<1>>))),
       CartRow("alice", Contents("badjson", <<>>))>>,
     <<CartRow("bob", Contents("number", <<>>)),
       CartRow("bob", Contents("null", <<>>))>>,
     <<CartRow("bob", Contents("string", <<"1", "2">>))>>}

GetCart ==
    \E username \in Users :
        \E order \in Orders(IdsOf(carts, username)) :
            \E F \in FaultPlans(CartTags(IdsOf(carts, username))) :
                /\ Idle
                /\ call' = [op |-> "get_cart", username |-> username,
                            faults |-> F, after |-> noted]
                /\ ret' = get_cart(products, carts, username, order, F)
                /\ noted' = NoNote
                /\ UNCHANGED <<products, carts>>

AddToCart ==
    \E username \in Users, product_id \in CartIds :
        \E F \in FaultPlans({<<"cart", 0>>}) :
            LET r == add_to_cart(carts, username, product_id,
                                 <<"cart", 0>> \in F)
            IN  /\ Idle
                /\ Len(carts) < MaxCartRows
                /\ call' = [op |-> "add_to_cart", username |-> username,
                            product_id |-> product_id, faults |-> F]
                /\ ret' = [kind |-> "bool", val |-> r.ok, dao |-> r.dao]
                /\ carts' = r.table
                /\ noted' = NoNote
                /\ UNCHANGED products

RemoveFromCart ==
    \E username \in Users, product_id \in CartIds :
        \E F \in FaultPlans({<<"cart", 0>>}) :
            LET r == remove_from_cart(carts, username, product_id,
                                      <<"cart", 0>> \in F)
            IN  /\ Idle
                /\ call' = [op |-> "remove_from_cart", username |-> username,
                            product_id |-> product_id, faults |-> F]
                /\ ret' = [kind |-> "bool", val |-> r.ok, dao |-> r.dao]
                /\ carts' = r.table
                /\ noted' = NoNote
                /\ UNCHANGED products

DeleteCart ==
    \E username \in Users :
        \E F \in FaultPlans({<<"cart", 0>>}) :
            LET r == delete_cart(carts, username, <<"cart", 0>> \in F)
            IN  /\ Idle
                /\ call' = [op |-> "delete_cart", username |-> username,
                            faults |-> F]
                /\ ret' = [kind |-> "bool", val |-> r.ok, dao |-> r.dao]
                /\ carts' = r.table
                /\ noted' = NoNote
                /\ UNCHANGED products

InitCart ==
    /\ products \in {<<Base, Second>>, <<Base, NullCost>>}
    /\ carts \in InitCartTables
    /\ call = NoCall
    /\ ret = NoRet
    /\ noted = NoNote

NextCart ==
    \/ GetCart
    \/ AddToCart
    \/ RemoveFromCart
    \/ DeleteCart
    \/ GetProduct
    \/ UpdateQty
    \/ TakeResult
    \/ TakeResultNoting

SpecCart == InitCart /\ [][NextCart]_vars

(***************************************************************************)
(* What the claims speak of, stated apart from the code above.             *)
(***************************************************************************)
NonBlank(cs) == \E i \in 1..Len(cs) : cs[i] \notin Whitespace

\* A stored product whose fields meet every constraint of the data model.
RowIsValid(row) ==
    /\ row.id.t \in {"int", "bool"} /\ row.id.v > 0
    /\ row.name.t = "str" /\ NonBlank(row.name.s)
    /\ row.cost.t \in {"int", "bool", "float"} /\ Halves(row.cost) >= 0
    /\ row.qty.t \in {"int", "bool"} /\ row.qty.v >= 0

AllValid(table) ==
    \A i \in 1..Len(table) : table[i] # EmptyRow => RowIsValid(table[i])

\* A mapping with the five fields, each of the type the data model gives
\* it and within its range.
ValidFieldSet(data) == data.description.t = "str" /\ RowIsValid(data)

NonEmptyRows(table) == SelectSeq(table, LAMBDA r : r # EmptyRow)

Range(seq) == {seq[i] : i \in 1..Len(seq)}

\* table with the qty of the product id replaced.
WithQty(table, id, qty) ==
    [k \in 1..Len(table) |->
        IF PyEq(table[k].id, PyInt(id)) THEN [table[k] EXCEPT !.qty = qty]
        ELSE table[k]]

\* A contents field that decodes to a sequence of product ids.
WellFormed(contents) ==
    contents.k = "array"
    /\ \A i \in 1..Len(contents.items) : contents.items[i].t = "int"

UserRows(cartTable, username) ==
    {i \in 1..Len(cartTable) : cartTable[i].username = username}

\* The ids in the well-formed rows of a user.
WellFormedIds(cartTable, username) ==
    UNION {Range(cartTable[i].contents.items) :
              i \in {j \in UserRows(cartTable, username) :
                        WellFormed(cartTable[j].contents)}}

\* The ids written anywhere in the array rows of a user.
MentionedIds(cartTable, username) ==
    UNION {Range(cartTable[i].contents.items) :
              i \in {j \in UserRows(cartTable, username) :
                        cartTable[j].contents.k = "array"}}

\* The product the catalog now holds under an id, as a set of at most one.
Current(table, id) == Range(get_product(table, id, FALSE))

PublicOps ==
    {"list_products", "get_product", "add_product", "update_qty",
     "batch_update_qty", "get_cart", "add_to_cart", "remove_from_cart",
     "delete_cart"}

(***************************************************************************)
(* The claims.                                                             *)
(***************************************************************************)

\* C1: no exception crosses the module boundary: every public operation
\* returns a boolean, an optional value, a sequence or a mapping, whichever
\* DAO call fails; in particular get_cart returns a sequence when
\* dao.get_cart fails.
C1_NoExceptionEscapes ==
    call.op \in PublicOps => ret.kind \in {"bool", "opt", "seq", "map"}

\* C2: an invalid Product is never persisted: a store that holds only valid
\* products holds only valid products after any call, and add_product calls
\* dao.add_product only when from_dict and validate() both succeed, and
\* otherwise returns false and writes nothing.
C2_NoInvalidPersisted ==
    [][/\ AllValid(products) => AllValid(products')
       /\ call'.op = "add_product" =>
             LET made == from_dict(call'.product)
                 good == ~made.raised /\ validate(made.product)
             IN  /\ "add_product" \in Range(ret'.dao) => good
                 /\ ~good => /\ ~ret'.val
                             /\ ret'.dao = <<>>
                             /\ products' = products]_vars

\* C2 happens: a mapping that parses and fails validate() is refused by
\* add_product on a store of valid products.
C2_Witness ==
    /\ call.op = "add_product"
    /\ ~from_dict(call.product).raised
    /\ ~ret.val
    /\ ret.dao = <<>>
    /\ products # <<>>
    /\ AllValid(products)

\* C3: get_cart(username) returns exactly the products that exist in the
\* catalog and whose id is in the contents of one of the user's cart rows,
\* each once, and the empty sequence when the user has no rows (the DAO
\* reads succeeding).
C3_GetCartExact ==
    (call.op = "get_cart" /\ call.faults = {}) =>
        /\ ret.kind = "seq"
        /\ Range(ret.val) =
              UNION {Current(products, x) :
                        x \in WellFormedIds(carts, call.username)}
        /\ \A i, j \in 1..Len(ret.val) : i # j => ret.val[i] # ret.val[j]
        /\ UserRows(carts, call.username) = {} => ret.val = <<>>

\* C4: batch_update_qty gives a result for exactly the keys of the mapping,
\* true exactly for the entries whose update_qty succeeds on its own, with
\* the quantity of those entries persisted and every other product left as
\* it was, whichever entries fail before or after.
C4_BatchIndependent ==
    [][call'.op = "batch_update_qty" =>
          LET u == call'.updates
              F == call'.faults
              Alone(i) == update_qty(products, PyInt(u[i].id), u[i].qty,
                                     <<"read", u[i].id>> \in F,
                                     <<"write", u[i].id>> \in F).ok
              Done == {i \in 1..Len(u) : Alone(i)}
          IN  /\ DOMAIN ret'.val = {u[i].id : i \in 1..Len(u)}
              /\ \A i \in 1..Len(u) : ret'.val[u[i].id] = Alone(i)
              /\ Len(products') = Len(products)
              /\ \A k \in 1..Len(products) :
                    /\ \A i \in Done :
                          PyEq(products[k].id, PyInt(u[i].id)) =>
                              products'[k] =
                                  [products[k] EXCEPT !.qty = u[i].qty]
                    /\ (\A i \in Done :
                           ~PyEq(products[k].id, PyInt(u[i].id))) =>
                              products'[k] = products[k]]_vars

\* C4 happens: a batch whose first entry fails and whose second succeeds.
C4_Witness ==
    /\ call.op = "batch_update_qty"
    /\ Len(call.updates) = 2
    /\ ~ret.val[call.updates[1].id]
    /\ ret.val[call.updates[2].id]

\* C5: update_qty returns true, with the quantity persisted, only when qty
\* is a non-negative integer and get_product finds the product; it returns
\* false when qty is negative or no integer, when the product is not found
\* and when the DAO write fails, and in the first two cases it leaves the
\* store as it was without calling dao.update_qty.
C5_UpdateQty ==
    [][call'.op = "update_qty" =>
          LET qty == call'.qty
              integer == qty.t \in {"int", "bool"} /\ qty.v >= 0
              found == get_product(products, PyInt(call'.id),
                                   <<"read", call'.id>> \in call'.faults)
                       # <<>>
              written == <<"write", call'.id>> \notin call'.faults
          IN  /\ ret'.val <=> (integer /\ found /\ written)
              /\ ret'.val => products' = WithQty(products, call'.id, qty)
              /\ (~integer \/ ~found) =>
                    /\ "update_qty" \notin Range(ret'.dao)
                    /\ products' = products]_vars

\* C5 happens: update_qty with a negative qty for a product that exists.
C5_Witness ==
    /\ call.op = "update_qty"
    /\ call.qty = PyInt(-1)
    /\ call.faults = {}
    /\ HasRow(products, PyInt(call.id))
    /\ ~ret.val

\* C6: list_products is all or nothing: the empty sequence when the fetch
\* fails or a non-empty row does not parse, and otherwise one Product for
\* each non-empty row, in order.
C6_ListAllOrNothing ==
    call.op = "list_products" =>
        LET rows == NonEmptyRows(products)
            broken == \/ <<"list", 0>> \in call.faults
                      \/ \E i \in 1..Len(rows) : from_dict(rows[i]).raised
        IN  /\ ret.kind = "seq"
            /\ broken => ret.val = <<>>
            /\ ~broken =>
                  /\ Len(ret.val) = Len(rows)
                  /\ \A i \in 1..Len(rows) :
                        ret.val[i] = from_dict(rows[i]).product

\* C6 happens: the fetch succeeds, one row parses and another does not.
C6_Witness ==
    /\ call.op = "list_products"
    /\ call.faults = {}
    /\ \E i \in 1..Len(products) : products[i] = NullCost
    /\ \E i \in 1..Len(products) : RowIsValid(products[i])
    /\ ret.val = <<>>

\* C7: Product.validate() is true exactly when id > 0, the name is not
\* blank once trimmed, cost >= 0 and qty >= 0.
C7_ValidateIff ==
    call.op = "validate" =>
        (ret.val <=> /\ call.product.id.v > 0
                     /\ NonBlank(call.product.name.s)
                     /\ call.product.cost.t = "float"
                     /\ call.product.cost.v >= 0
                     /\ call.product.qty.v >= 0)

\* C7 happens: a Product whose name has spaces around it is valid.
C7_Witness ==
    /\ call.op = "validate"
    /\ call.product.name.s = <<" ", "a", " ">>
    /\ ret.val

C9_MalformedRowsSkipped ==
    (call.op = "get_cart" /\ call.faults = {} /\ ret.kind = "seq") =>
        /\ \A i \in 1..Len(ret.val) :
              ret.val[i].id \in WellFormedIds(carts, call.username)
        /\ \A x \in WellFormedIds(carts, call.username) :
              Current(products, x) \subseteq Range(ret.val)

\* C10: reads are fresh: the get_product(id) and the get_cart of a cart
\* holding id that follow a successful update_qty(id, q) return the product
\* with qty = q, and the get_cart that follows a successful add_to_cart,
\* remove_from_cart or delete_cart returns the products the rows now stored
\* refer to, as the catalog now holds them (the DAO reads succeeding).
C10_FreshReads ==
    /\ (/\ call.op = "get_product"
        /\ call.faults = {}
        /\ call.after.op = "update_qty"
        /\ call.after.id = call.id) =>
           /\ ret.val # <<>>
           /\ PyEq(ret.val[1].qty, call.after.qty)
    /\ (/\ call.op = "get_cart"
        /\ call.faults = {}
        /\ call.after.op = "update_qty"
        /\ PyInt(call.after.id) \in WellFormedIds(carts, call.username)) =>
           \E i \in 1..Len(ret.val) :
               /\ ret.val[i].id = PyInt(call.after.id)
               /\ PyEq(ret.val[i].qty, call.after.qty)
    /\ (/\ call.op = "get_cart"
        /\ call.faults = {}
        /\ call.after.op \in {"add_to_cart", "remove_from_cart",
                              "delete_cart"}) =>
           /\ \A i \in 1..Len(ret.val) :
                 /\ ret.val[i].id \in MentionedIds(carts, call.username)
                 /\ ret.val[i] \in Current(products, ret.val[i].id)
           /\ \A x \in WellFormedIds(carts, call.username) :
                 Current(products, x) \subseteq Range(ret.val)
           /\ UserRows(carts, call.username) = {} => ret.val = <<>>

\* C10 happens: get_cart right after update_qty(id, 4) on a product of the
\* cart returns it with qty 4.
C10_Witness ==
    /\ call.op = "get_cart"
    /\ call.faults = {}
    /\ call.after.op = "update_qty"
    /\ call.after.qty = PyInt(4)
    /\ \E i \in 1..Len(ret.val) :
           /\ ret.val[i].id = PyInt(call.after.id)
           /\ ret.val[i].qty = PyInt(4)

====
